---- MODULE Spec2Model ----
(***************************************************************************)
(* Model of package env (jgf/env): Marshal walks a Go value by reflection  *)
(* and writes one line  export NAME='VALUE'  per tagged scalar field.      *)
(*                                                                         *)
(* Go strings are modelled as sequences of one-character strings, so that  *)
(* parseTag, tagOptions.Contains, the name derivation and the formatting   *)
(* of the output are computed, not assumed.  A reflect.Value is modelled   *)
(* by what makes two of them equal as map keys: its type, its data pointer *)
(* and its flag word (kind plus the indirection and addressable bits).     *)
(***************************************************************************)
EXTENDS Integers, Sequences, FiniteSets, TLC

\* ------------------------------------------------------------------ bounds

\* Largest number of fields of the record handed to Marshal.
MaxFields == 3

\* Deepest call stack of visitValue the model follows (the Go runtime's stack
\* limit stands behind it; no walk of the modelled inputs comes near it).
MaxDepth == 12

\* ----------------------------------------------------------------- strings

Comma == ","
Str_omitempty == <<"o","m","i","t","e","m","p","t","y">>
Str_export == <<"e","x","p","o","r","t"," ">>

\* strings.Index(s, ","): 0-based index of the first comma, -1 when there is none.
RECURSIVE IndexFrom(_, _, _)
IndexFrom(s, c, i) ==
  IF i > Len(s) THEN -1
  ELSE IF s[i] = c THEN i - 1
  ELSE IndexFrom(s, c, i + 1)

Index(s, c) == IndexFrom(s, c, 1)

\* Go slicing s[:i] and s[i:] with 0-based i.
Prefix(s, i) == SubSeq(s, 1, i)
Suffix(s, i) == SubSeq(s, i + 1, Len(s))

\* parseTag: the name before the first comma and the options after it.
parseTag(tag) ==
  LET idx == Index(tag, Comma)
  IN IF idx # -1
       THEN [name |-> Prefix(tag, idx), opts |-> Suffix(tag, idx + 1)]
       ELSE [name |-> tag, opts |-> <<>>]

\* The loop of tagOptions.Contains: s is the rest of the option string.
RECURSIVE ContainsLoop(_, _)
ContainsLoop(s, optionName) ==
  IF s = <<>> THEN FALSE
  ELSE LET i == Index(s, Comma)
           head == IF i >= 0 THEN Prefix(s, i) ELSE s
           next == IF i >= 0 THEN Suffix(s, i + 1) ELSE <<>>
       IN IF head = optionName THEN TRUE ELSE ContainsLoop(next, optionName)

Contains(o, optionName) ==
  IF Len(o) = 0 THEN FALSE ELSE ContainsLoop(o, optionName)

\* fmt's %v of an integer: decimal digits, a leading minus sign when negative.
Digit(d) ==
  CASE d = 0 -> "0" [] d = 1 -> "1" [] d = 2 -> "2" [] d = 3 -> "3" [] d = 4 -> "4"
    [] d = 5 -> "5" [] d = 6 -> "6" [] d = 7 -> "7" [] d = 8 -> "8" [] d = 9 -> "9"

RECURSIVE FormatNat(_)
FormatNat(n) ==
  IF n < 10 THEN <<Digit(n)>> ELSE FormatNat(n \div 10) \o <<Digit(n % 10)>>

FormatInt(n) == IF n < 0 THEN <<"-">> \o FormatNat(0 - n) ELSE FormatNat(n)

FormatUint(n) == FormatNat(n)

\* A float64 is held in tenths (15 is 1.5); %v prints the shortest decimal.
FormatFloat(t) ==
  LET a == IF t < 0 THEN 0 - t ELSE t
      sign == IF t < 0 THEN <<"-">> ELSE <<>>
  IN sign \o FormatNat(a \div 10)
       \o (IF a % 10 = 0 THEN <<>> ELSE <<".", Digit(a % 10)>>)

\* fmt.Sprintf("export %s='%v'\n", tag, value)
Line(tag, text) == Str_export \o tag \o <<"=", "'">> \o text \o <<"'", "\n">>


\* -------------------------------------------------------------------- heap
(***************************************************************************)
(* The Go values Marshal is run on.  Every storage location is an object   *)
(* with a kind, a type string, an address and a content.  A struct and its *)
(* first field share an address, as in Go.  The record handed to Marshal   *)
(* ("root") is assembled from the field declarations below; everything     *)
(* else is fixed.                                                          *)
(***************************************************************************)
Object(kind, typ, addr) ==
  [kind |-> kind, typ |-> typ, addr |-> addr, num |-> 0, str |-> <<>>, len |-> 0,
   isnil |-> FALSE, b |-> FALSE, fields |-> <<>>, elem |-> "none"]

Heap ==
  ("nA" :> [Object("String", "string", 10) EXCEPT !.str = <<"h","a","l","l","o">>])
  @@ ("nB" :> [Object("Int", "int", 11) EXCEPT !.num = 4711])
  @@ ("nIgnored" :> [Object("Int", "int", 12) EXCEPT !.num = 42])
  @@ ("nZ" :> Object("Int", "int", 13))
  @@ ("nE" :> Object("String", "string", 14))
  @@ ("nF" :> [Object("Float", "float64", 16) EXCEPT !.num = 15])
  @@ ("nG" :> Object("Float", "float64", 17))
  @@ ("nN" :> [Object("Int", "int", 18) EXCEPT !.num = 0 - 3])
  @@ ("nV" :> [Object("Uint", "uint", 19) EXCEPT !.num = 7])
  @@ ("nW" :> Object("Uint", "uint", 20))
  @@ ("nT" :> Object("String", "string", 21))
  @@ ("nS1" :> [Object("Struct", "env_test.sA", 30) EXCEPT !.fields = <<[Name |-> <<"A">>, tag |-> <<"M","Y","V","A","R">>, node |-> "nS1_A"], [Name |-> <<"C">>, tag |-> <<>>, node |-> "nS1_C"], [Name |-> <<"D">>, tag |-> <<",","o","m","i","t","e","m","p","t","y">>, node |-> "nS1_D"]>>])
  @@ ("nS1_A" :> [Object("String", "string", 30) EXCEPT !.str = <<"h","a","l","l","o">>])
  @@ ("nS1_C" :> [Object("String", "string", 31) EXCEPT !.str = <<"w","e","l","t">>])
  @@ ("nS1_D" :> [Object("Int", "int", 32) EXCEPT !.num = 0])
  @@ ("nS4" :> [Object("Struct", "env_test.sA", 40) EXCEPT !.fields = <<[Name |-> <<"A">>, tag |-> <<"M","Y","V","A","R">>, node |-> "nS4_A"], [Name |-> <<"C">>, tag |-> <<>>, node |-> "nS4_C"], [Name |-> <<"D">>, tag |-> <<",","o","m","i","t","e","m","p","t","y">>, node |-> "nS4_D"]>>])
  @@ ("nS4_A" :> [Object("String", "string", 40) EXCEPT !.str = <<"h","a","l","l","o">>])
  @@ ("nS4_C" :> [Object("String", "string", 41) EXCEPT !.str = <<"w","e","l","t">>])
  @@ ("nS4_D" :> [Object("Int", "int", 42) EXCEPT !.num = 5])
  @@ ("nS5" :> [Object("Struct", "env_test.sA", 45) EXCEPT !.fields = <<[Name |-> <<"A">>, tag |-> <<"M","Y","V","A","R">>, node |-> "nS5_A"], [Name |-> <<"C">>, tag |-> <<>>, node |-> "nS5_C"], [Name |-> <<"D">>, tag |-> <<",","o","m","i","t","e","m","p","t","y">>, node |-> "nS5_D"]>>])
  @@ ("nS5_A" :> [Object("String", "string", 45) EXCEPT !.str = <<>>])
  @@ ("nS5_C" :> [Object("String", "string", 46) EXCEPT !.str = <<>>])
  @@ ("nS5_D" :> [Object("Int", "int", 47) EXCEPT !.num = 5])
  @@ ("nS2" :> [Object("Struct", "env_test.ssB", 35) EXCEPT !.fields = <<[Name |-> <<"S">>, tag |-> <<>>, node |-> "nS2_S"]>>])
  @@ ("nS2_S" :> [Object("Struct", "env_test.sB", 35) EXCEPT !.fields = <<[Name |-> <<"B">>, tag |-> <<"B">>, node |-> "nS2_S_B"]>>])
  @@ ("nS2_S_B" :> [Object("Int", "int", 35) EXCEPT !.num = 4711])
  @@ ("nL" :> [Object("Slice", "[]string", 50) EXCEPT !.len = 2])
  @@ ("nArr" :> [Object("Array", "[2]string", 51) EXCEPT !.len = 2])
  @@ ("nM" :> [Object("Map", "map[string]int", 52) EXCEPT !.len = 2])
  @@ ("nCh" :> Object("Chan", "chan int", 53))
  @@ ("nS3" :> [Object("Struct", "env_test.sE", 55) EXCEPT !.fields = <<[Name |-> <<"N">>, tag |-> <<"N">>, node |-> "nS3_N"], [Name |-> <<"L">>, tag |-> <<"L","I","S","T">>, node |-> "nS3_L"]>>])
  @@ ("nS3_N" :> [Object("Int", "int", 55) EXCEPT !.num = 1])
  @@ ("nS3_L" :> [Object("Slice", "[]int", 56) EXCEPT !.len = 1])
  @@ ("nPL" :> [Object("Ptr", "*[]string", 57) EXCEPT !.elem = "nL"])
  @@ ("nUL" :> [Object("Slice", "[]string", 60) EXCEPT !.len = 2])
  @@ ("nUC" :> Object("Chan", "chan int", 61))
  @@ ("nUF" :> Object("Func", "func()", 62))
  @@ ("nUB" :> [Object("Bool", "bool", 63) EXCEPT !.b = TRUE])
  @@ ("nLN" :> [Object("Slice", "[]string", 70) EXCEPT !.isnil = TRUE])
  @@ ("nA0" :> Object("Array", "[0]string", 71))
  @@ ("nMN" :> [Object("Map", "map[string]int", 72) EXCEPT !.isnil = TRUE])
  @@ ("nCN" :> [Object("Chan", "chan int", 73) EXCEPT !.isnil = TRUE])
  @@ ("nFN" :> [Object("Func", "func()", 74) EXCEPT !.isnil = TRUE])
  @@ ("nL2" :> [Object("Slice", "[]string", 75) EXCEPT !.len = 2])
  @@ ("cX" :> [Object("Int", "int", 100) EXCEPT !.num = 4711])
  @@ ("cZ" :> Object("Int", "int", 101))
  @@ ("cS" :> [Object("String", "string", 102) EXCEPT !.str = <<"h","a","l","l","o">>])
  @@ ("cBool" :> [Object("Bool", "bool", 103) EXCEPT !.b = TRUE])
  @@ ("nPA" :> [Object("Ptr", "*int", 80) EXCEPT !.elem = "cX"])
  @@ ("nPB" :> [Object("Ptr", "*int", 81) EXCEPT !.elem = "cX"])
  @@ ("nPN" :> [Object("Ptr", "*int", 82) EXCEPT !.elem = "nil"])
  @@ ("nPZ" :> [Object("Ptr", "*int", 83) EXCEPT !.elem = "cZ"])
  @@ ("nPF" :> [Object("Ptr", "*int", 84) EXCEPT !.elem = "nB"])
  @@ ("nPU" :> [Object("Ptr", "*int", 85) EXCEPT !.elem = "cX"])
  @@ ("nSelf" :> [Object("Ptr", "*env_test.T", 90) EXCEPT !.elem = "root"])
  @@ ("nSelfN" :> [Object("Ptr", "*env_test.T", 91) EXCEPT !.elem = "root"])
  @@ ("nI" :> [Object("Interface", "interface {}", 92) EXCEPT !.elem = "cS"])
  @@ ("nNode" :> [Object("Ptr", "*env_test.Node", 93) EXCEPT !.elem = "cNode"])
  @@ ("nIN" :> [Object("Interface", "interface {}", 94) EXCEPT !.elem = "nil"])
  @@ ("cNode" :> [Object("Struct", "env_test.Node", 110) EXCEPT !.fields = <<[Name |-> <<"V","a","l">>, tag |-> <<"V","A","L">>, node |-> "cNode_Val"], [Name |-> <<"N","e","x","t">>, tag |-> <<"N","E","X","T">>, node |-> "cNode_Next"]>>])
  @@ ("cNode_Val" :> [Object("Int", "int", 110) EXCEPT !.num = 5])
  @@ ("cNode_Next" :> [Object("Ptr", "*env_test.Node", 111) EXCEPT !.elem = "cNode"])
  @@ ("nFlag" :> [Object("Bool", "bool", 120) EXCEPT !.b = TRUE])
  @@ ("nOff" :> Object("Bool", "bool", 121))
  @@ ("nOffO" :> Object("Bool", "bool", 122))
  @@ ("nPBo" :> [Object("Ptr", "*bool", 123) EXCEPT !.elem = "cBool"])
  @@ ("top" :> [Object("Ptr", "*env_test.T", 2) EXCEPT !.elem = "root"])

\* The field declarations a record may be assembled from: the Go field name,
\* its env tag and the object that is the field's storage.
Decl ==
  ("A" :> [Name |-> <<"A">>, tag |-> <<"M","Y","V","A","R">>, node |-> "nA"])
  @@ ("B" :> [Name |-> <<"B">>, tag |-> <<"B">>, node |-> "nB"])
  @@ ("Ignored" :> [Name |-> <<"I","g","n","o","r","e","d">>, tag |-> <<>>, node |-> "nIgnored"])
  @@ ("Z" :> [Name |-> <<"Z">>, tag |-> <<"Z",",","o","m","i","t","e","m","p","t","y">>, node |-> "nZ"])
  @@ ("E" :> [Name |-> <<"E">>, tag |-> <<"E",",","o","m","i","t","e","m","p","t","y">>, node |-> "nE"])
  @@ ("F" :> [Name |-> <<"F">>, tag |-> <<"F",",","x",",","o","m","i","t","e","m","p","t","y">>, node |-> "nF"])
  @@ ("G" :> [Name |-> <<"G">>, tag |-> <<"G",",","o","m","i","t","e","m","p","t","y">>, node |-> "nG"])
  @@ ("N" :> [Name |-> <<"N">>, tag |-> <<"N",",","o","m","i","t","e","m","p","t","y">>, node |-> "nN"])
  @@ ("V" :> [Name |-> <<"V">>, tag |-> <<"V",",","o","m","i","t","e","m","p","t","y">>, node |-> "nV"])
  @@ ("W" :> [Name |-> <<"W">>, tag |-> <<"W",",","x",",","o","m","i","t","e","m","p","t","y">>, node |-> "nW"])
  @@ ("T" :> [Name |-> <<"T">>, tag |-> <<"T">>, node |-> "nT"])
  @@ ("S1" :> [Name |-> <<"S","1">>, tag |-> <<"S","1">>, node |-> "nS1"])
  @@ ("S2" :> [Name |-> <<"S","2">>, tag |-> <<"S","2">>, node |-> "nS2"])
  @@ ("S4" :> [Name |-> <<"S","4">>, tag |-> <<>>, node |-> "nS4"])
  @@ ("S5" :> [Name |-> <<"S","5">>, tag |-> <<"S","5">>, node |-> "nS5"])
  @@ ("L" :> [Name |-> <<"L">>, tag |-> <<"M","Y","S","L","I","C","E">>, node |-> "nL"])
  @@ ("Arr" :> [Name |-> <<"A","r","r">>, tag |-> <<"M","Y","A","R","R">>, node |-> "nArr"])
  @@ ("M" :> [Name |-> <<"M">>, tag |-> <<"M","Y","M","A","P">>, node |-> "nM"])
  @@ ("Ch" :> [Name |-> <<"C","h">>, tag |-> <<"M","Y","C","H","A","N">>, node |-> "nCh"])
  @@ ("S3" :> [Name |-> <<"S","3">>, tag |-> <<"S","3">>, node |-> "nS3"])
  @@ ("PL" :> [Name |-> <<"P","L">>, tag |-> <<>>, node |-> "nPL"])
  @@ ("UL" :> [Name |-> <<"U","L">>, tag |-> <<>>, node |-> "nUL"])
  @@ ("UC" :> [Name |-> <<"U","C">>, tag |-> <<>>, node |-> "nUC"])
  @@ ("UF" :> [Name |-> <<"U","F">>, tag |-> <<>>, node |-> "nUF"])
  @@ ("UB" :> [Name |-> <<"U","B">>, tag |-> <<>>, node |-> "nUB"])
  @@ ("LN" :> [Name |-> <<"L","N">>, tag |-> <<"L",",","o","m","i","t","e","m","p","t","y">>, node |-> "nLN"])
  @@ ("A0" :> [Name |-> <<"A","0">>, tag |-> <<"A","0",",","o","m","i","t","e","m","p","t","y">>, node |-> "nA0"])
  @@ ("MN" :> [Name |-> <<"M","N">>, tag |-> <<"M",",","o","m","i","t","e","m","p","t","y">>, node |-> "nMN"])
  @@ ("CN" :> [Name |-> <<"C","N">>, tag |-> <<"C",",","o","m","i","t","e","m","p","t","y">>, node |-> "nCN"])
  @@ ("FN" :> [Name |-> <<"F","N">>, tag |-> <<"F",",","o","m","i","t","e","m","p","t","y">>, node |-> "nFN"])
  @@ ("L2" :> [Name |-> <<"L","2">>, tag |-> <<"L","2",",","o","m","i","t","e","m","p","t","y">>, node |-> "nL2"])
  @@ ("PA" :> [Name |-> <<"P","A">>, tag |-> <<"P","A">>, node |-> "nPA"])
  @@ ("PB" :> [Name |-> <<"P","B">>, tag |-> <<"P","B">>, node |-> "nPB"])
  @@ ("PN" :> [Name |-> <<"P","N">>, tag |-> <<"P","N">>, node |-> "nPN"])
  @@ ("PZ" :> [Name |-> <<"P","Z">>, tag |-> <<"P","Z",",","o","m","i","t","e","m","p","t","y">>, node |-> "nPZ"])
  @@ ("PF" :> [Name |-> <<"P","F">>, tag |-> <<"P","F">>, node |-> "nPF"])
  @@ ("PU" :> [Name |-> <<"P","U">>, tag |-> <<>>, node |-> "nPU"])
  @@ ("Self" :> [Name |-> <<"S","e","l","f">>, tag |-> <<>>, node |-> "nSelf"])
  @@ ("SelfN" :> [Name |-> <<"S","e","l","f","N">>, tag |-> <<"S","E","L","F">>, node |-> "nSelfN"])
  @@ ("I" :> [Name |-> <<"I">>, tag |-> <<"I">>, node |-> "nI"])
  @@ ("Node" :> [Name |-> <<"N","o","d","e">>, tag |-> <<>>, node |-> "nNode"])
  @@ ("IN" :> [Name |-> <<"I","N">>, tag |-> <<"I","N">>, node |-> "nIN"])
  @@ ("Flag" :> [Name |-> <<"F","l","a","g">>, tag |-> <<"F","L","A","G">>, node |-> "nFlag"])
  @@ ("Off" :> [Name |-> <<"O","f","f">>, tag |-> <<"O","F","F">>, node |-> "nOff"])
  @@ ("OffO" :> [Name |-> <<"O","f","f","O">>, tag |-> <<"O","F","F","2",",","o","m","i","t","e","m","p","t","y">>, node |-> "nOffO"])
  @@ ("PBo" :> [Name |-> <<"P","B","o">>, tag |-> <<"P","B","O","O","L">>, node |-> "nPBo"])

\* Records are assembled from one pool at a time.
Pools ==
  { {"A", "B", "Ignored", "Z", "E"},
    {"F", "G", "N", "V", "W", "T"},
    {"S1", "S2", "S4", "S5", "B", "A"},
    {"L", "Arr", "M", "Ch", "B"},
    {"S3", "PL", "L", "B"},
    {"UL", "UC", "UF", "UB", "B"},
    {"LN", "A0", "MN", "L2", "B"},
    {"CN", "FN", "B"},
    {"PA", "PB", "PN", "PZ", "B"},
    {"PF", "PU", "PA", "B"},
    {"Self", "SelfN", "Node", "B"},
    {"I", "IN", "B"},
    {"Flag", "Off", "OffO", "PBo", "B"} }

\* ------------------------------------------------------------ the program

VARIABLES
  input,       \* the declarations of the record handed to Marshal, in order
  mode,        \* "value": Marshal(s); "pointer": Marshal(&s); "nil": Marshal(nil)
  pc,          \* "start", "walk" (inside e.marshal) or "done" (Marshal returned)
  stack,       \* the calls of visitValue in progress, innermost last
  buffer,      \* e.Buffer
  visited,     \* e.visited
  ret,         \* the error value a visitValue call has just returned, if any
  result,      \* what Marshal returned: the bytes and the error
  log,         \* history: every line written, with the place in the walk
  trace,       \* history: every call of visitValue, with the place in the walk
  steps        \* history: the number of steps taken

vars == <<input, mode, pc, stack, buffer, visited, ret, result, log, trace, steps>>

\* The record under encoding; every other object is in Heap.
RootShell == Object("Struct", "env_test.T", 1)

Root == [RootShell EXCEPT !.fields = [i \in 1..Len(input) |-> Decl[input[i]]]]

Obj(n) == IF n = "root" THEN Root ELSE Heap[n]

NodeIds == DOMAIN Heap \cup {"root"}

\* Where Marshal(s) keeps its copy of s, relative to s itself: passing a struct
\* in an interface copies it, so pointers into s do not point into the copy.
CopyShift(m) == IF m = "value" THEN 1000 ELSE 0

\* reflect.Value, as far as == on it goes: the type, the data pointer and the
\* flag word (the kind, flagIndir, flagAddr).
Value(typ, ptr, kind, flag) == [typ |-> typ, ptr |-> ptr, kind |-> kind, flag |-> flag]

Invalid == Value("", 0, "Invalid", {})

\* The object of a given type at a given address: no two share both.
Shell(n) == IF n = "root" THEN RootShell ELSE Heap[n]

ObjectAt ==
  [key \in {<<Shell(n).typ, Shell(n).addr>> : n \in NodeIds} |->
     CHOOSE n \in NodeIds : <<Shell(n).typ, Shell(n).addr>> = key]

\* The object a value reads: the one of its type at its address, or the copy.
NodeOf(v) ==
  IF v.ptr >= CopyShift("value")
    THEN ObjectAt[<<v.typ, v.ptr - CopyShift("value")>>]
    ELSE ObjectAt[<<v.typ, v.ptr>>]

\* reflect.ValueOf(v) for the three ways Marshal is called.
ValueOf(m) ==
  CASE m = "nil" -> Invalid
    [] m = "value" -> Value(Root.typ, Root.addr + CopyShift(m), "Struct", {"Indir"})
    [] m = "pointer" -> Value(Heap["top"].typ, Heap["top"].addr, "Ptr", {})

IsValid(v) == v.kind # "Invalid"

NumField(v) == Len(Obj(NodeOf(v)).fields)

\* v.Type().Field(i): the declaration of the i-th field, i counted from 0.
StructField(v, i) == Obj(NodeOf(v)).fields[i + 1]

\* v.Field(i): the field's storage lies inside v's; the flag bits are inherited.
Field(v, i) ==
  LET o == Obj(NodeOf(v))
      f == Obj(o.fields[i + 1].node)
  IN Value(f.typ, f.addr + (v.ptr - o.addr), f.kind, v.flag \cap {"Indir", "Addr"})

IsNil(v) == Obj(NodeOf(v)).elem = "nil"

\* v.Elem(): what a pointer points to (addressable) or an interface holds.
Elem(v) ==
  LET t == Obj(Obj(NodeOf(v)).elem)
  IN Value(t.typ, t.addr, t.kind, IF v.kind = "Ptr" THEN {"Indir", "Addr"} ELSE {"Indir"})

VLen(v) ==
  LET o == Obj(NodeOf(v)) IN IF o.kind = "String" THEN Len(o.str) ELSE o.len

IntKinds == {"Int"}
UintKinds == {"Uint"}
FloatKinds == {"Float"}
RefKinds == {"Ptr", "Interface"}

\* A slip that would treat nil channels and functions as empty too.
isEmptyValueNilChan(v) ==
  CASE v.kind \in {"Array", "Map", "Slice", "String"} -> VLen(v) = 0
    [] v.kind = "Bool" -> ~Obj(NodeOf(v)).b
    [] v.kind \in IntKinds \cup UintKinds \cup FloatKinds -> Obj(NodeOf(v)).num = 0
    [] v.kind \in RefKinds -> IsNil(v)
    [] OTHER -> Obj(NodeOf(v)).isnil

isEmptyValue(v) ==
  CASE v.kind \in {"Array", "Map", "Slice", "String"} -> VLen(v) = 0
    [] v.kind = "Bool" -> ~Obj(NodeOf(v)).b
    [] v.kind \in IntKinds \cup UintKinds \cup FloatKinds -> Obj(NodeOf(v)).num = 0
    [] v.kind \in RefKinds -> IsNil(v)
    [] OTHER -> FALSE

\* The condition of lines 42, 46, 50 and 54: the scalar is written.
Writes(tag, omitEmpty, v) == tag # <<>> /\ ~(omitEmpty /\ isEmptyValue(v))

\* The default case of an older version: an error whatever the name.
ReportsAlways(tag, omitEmpty, v) == TRUE

\* The condition of line 75: a value of another kind is an error.
Reports(tag, omitEmpty, v) == tag # <<>> /\ ~(omitEmpty /\ isEmptyValue(v))

\* e.visited[v]
SeenNever(v) == FALSE

Seen(v) == v \in visited

\* e.Buffer.WriteString
WriteStringFront(buf, s) == s \o buf

WriteString(buf, s) == buf \o s

\* The arguments of the recursive call on a dereferenced pointer or interface.
ElemTag(tag) == tag

ElemOmitEmptyKept(omitEmpty) == omitEmpty

ElemOmitEmpty(omitEmpty) == FALSE

\* The name a struct field is visited under.
FieldNameAlwaysPrefixed(tag, name, fieldName) ==
  IF tag # <<>> THEN tag \o <<"_">> \o fieldName ELSE name

FieldName(tag, name, fieldName) ==
  IF tag # <<>> /\ name = <<>> THEN tag \o <<"_">> \o fieldName ELSE name

\* Errors.  nil, UnsupportedTypeError(s), and fmt.Errorf("visiting %v: %w", ...).
Nil == [e |-> "nil"]

UnsupportedTypeError(s) == [e |-> "UnsupportedTypeError", s |-> s]

Wrap(fieldName, err) == [e |-> "wrapError", field |-> fieldName, err |-> err]

\* errors.Is: err or an error it wraps equals target.
RECURSIVE ErrorsIs(_, _)
ErrorsIs(err, target) ==
  IF err = target THEN TRUE
  ELSE IF err.e = "wrapError" THEN ErrorsIs(err.err, target)
  ELSE FALSE

\* A []byte: nil, or its bytes.
NilBytes == [isnil |-> TRUE, bytes |-> <<>>]

Bytes(b) == [isnil |-> FALSE, bytes |-> b]

\* e.Bytes(): the written part of the buffer, a nil slice if nothing was written.
BufferBytes(buf) == IF buf = <<>> THEN NilBytes ELSE Bytes(buf)

MarshalReturns(err, buf) ==
  IF err # Nil THEN [data |-> NilBytes, err |-> err]
  ELSE [data |-> BufferBytes(buf), err |-> Nil]

NoRet == [set |-> FALSE, err |-> Nil]

Ret(err) == [set |-> TRUE, err |-> err]

Call(v, tag, omitEmpty, path) ==
  [op |-> "call", v |-> v, tag |-> tag, omitEmpty |-> omitEmpty, i |-> 0, path |-> path]

Top == stack[Len(stack)]

\* The history entry of the call on top of the stack; fresh: it got past line 34.
Entered(fresh) ==
  [v |-> Top.v, tag |-> Top.tag, omitEmpty |-> Top.omitEmpty, path |-> Top.path,
   fresh |-> fresh, node |-> IF IsValid(Top.v) THEN NodeOf(Top.v) ELSE "none"]

Pop == SubSeq(stack, 1, Len(stack) - 1)

Calling == pc = "walk" /\ stack # <<>> /\ Top.op = "call" /\ ~ret.set

Looping == pc = "walk" /\ stack # <<>> /\ Top.op = "loop"

\* The records Marshal is run on: up to MaxFields distinct declarations of one pool.
Inputs ==
  UNION { { s \in [1..n -> pool] : \A i, j \in 1..n : i # j => s[i] # s[j] } :
            n \in 1..MaxFields, pool \in Pools }

Init ==
  /\ \/ mode = "nil" /\ input = <<>>
     \/ mode \in {"value", "pointer"} /\ input \in Inputs
  /\ pc = "start"
  /\ stack = <<>>
  /\ buffer = <<>>
  /\ visited = {}
  /\ ret = NoRet
  /\ result = [data |-> NilBytes, err |-> Nil]
  /\ log = <<>>
  /\ trace = <<>>
  /\ steps = 0

\* Marshal: a fresh encodeState, then e.marshal(v) calls visitValue(ValueOf(v), "", false).
Marshal ==
  /\ pc = "start"
  /\ pc' = "walk"
  /\ visited' = {}
  /\ buffer' = <<>>
  /\ stack' = <<Call(ValueOf(mode), <<>>, FALSE, <<>>)>>
  /\ steps' = steps + 1
  /\ UNCHANGED <<input, mode, ret, result, log, trace>>

\* visitValue, lines 34-36: an invalid or already visited value returns nil.
VisitSkip ==
  /\ Calling
  /\ ~IsValid(Top.v) \/ Seen(Top.v)
  /\ stack' = Pop
  /\ ret' = Ret(Nil)
  /\ trace' = Append(trace, Entered(FALSE))
  /\ steps' = steps + 1
  /\ UNCHANGED <<input, mode, pc, buffer, visited, result, log>>

Fresh(kinds) ==
  /\ Calling
  /\ IsValid(Top.v) /\ ~Seen(Top.v)
  /\ Top.v.kind \in kinds
  /\ visited' = visited \cup {Top.v}
  /\ trace' = Append(trace, Entered(TRUE))

\* What the four scalar cases share: the line is written unless the name is
\* empty or omitempty meets the zero value; then line 80 returns nil.
WriteScalar(text) ==
  /\ IF Writes(Top.tag, Top.omitEmpty, Top.v)
       THEN /\ buffer' = WriteString(buffer, Line(Top.tag, text))
            /\ log' = Append(log, [path |-> Top.path, name |-> Top.tag,
                                   node |-> NodeOf(Top.v)])
       ELSE UNCHANGED <<buffer, log>>
  /\ stack' = Pop
  /\ ret' = Ret(Nil)
  /\ steps' = steps + 1
  /\ UNCHANGED <<input, mode, pc, result>>

\* Lines 41-44.
VisitInt ==
  /\ Fresh(IntKinds)
  /\ WriteScalar(FormatInt(Obj(NodeOf(Top.v)).num))

\* Lines 45-48.
VisitUint ==
  /\ Fresh(UintKinds)
  /\ WriteScalar(FormatUint(Obj(NodeOf(Top.v)).num))

\* Lines 49-52.
VisitFloat ==
  /\ Fresh(FloatKinds)
  /\ WriteScalar(FormatFloat(Obj(NodeOf(Top.v)).num))

\* Lines 53-56.
VisitString ==
  /\ Fresh({"String"})
  /\ WriteScalar(Obj(NodeOf(Top.v)).str)

\* Pointer and interface, lines 57-60: the result of the inner call is returned as it is.
VisitPtr ==
  /\ Fresh(RefKinds)
  /\ IF ~IsNil(Top.v)
       THEN /\ stack' = Append(Pop, Call(Elem(Top.v), ElemTag(Top.tag),
                                         ElemOmitEmpty(Top.omitEmpty), Append(Top.path, 0)))
            /\ ret' = ret
       ELSE /\ stack' = Pop
            /\ ret' = Ret(Nil)
  /\ steps' = steps + 1
  /\ UNCHANGED <<input, mode, pc, buffer, result, log>>

\* Struct, line 61-62: the loop over the fields begins.
VisitStruct ==
  /\ Fresh({"Struct"})
  /\ stack' = Append(Pop, [Top EXCEPT !.op = "loop", !.i = 0])
  /\ steps' = steps + 1
  /\ UNCHANGED <<input, mode, pc, buffer, ret, result, log>>

\* Lines 63-69: the i-th field is visited under its name and omitempty option.
LoopField ==
  /\ Looping /\ ~ret.set
  /\ Top.i < NumField(Top.v)
  /\ Len(stack) < MaxDepth
  /\ LET sf == StructField(Top.v, Top.i)
         parsed == parseTag(sf.tag)
         name == FieldName(Top.tag, parsed.name, sf.Name)
     IN stack' = Append(stack, Call(Field(Top.v, Top.i), name,
                                    Contains(parsed.opts, Str_omitempty),
                                    Append(Top.path, Top.i + 1)))
  /\ steps' = steps + 1
  /\ UNCHANGED <<input, mode, pc, buffer, visited, ret, result, log, trace>>

\* Lines 70-72: an error of the field ends the loop, wrapped with the field's name.
LoopFieldReturned ==
  /\ Looping /\ ret.set
  /\ IF ret.err # Nil
       THEN /\ stack' = Pop
            /\ ret' = Ret(Wrap(StructField(Top.v, Top.i).Name, ret.err))
       ELSE /\ stack' = Append(Pop, [Top EXCEPT !.i = Top.i + 1])
            /\ ret' = NoRet
  /\ steps' = steps + 1
  /\ UNCHANGED <<input, mode, pc, buffer, visited, result, log, trace>>

\* The loop is over: line 80.
LoopEnd ==
  /\ Looping /\ ~ret.set
  /\ Top.i = NumField(Top.v)
  /\ stack' = Pop
  /\ ret' = Ret(Nil)
  /\ steps' = steps + 1
  /\ UNCHANGED <<input, mode, pc, buffer, visited, result, log, trace>>

\* Any other kind, lines 74-77.
VisitDefault ==
  /\ Fresh({"Bool", "Slice", "Array", "Map", "Chan", "Func"})
  /\ stack' = Pop
  /\ ret' = IF Reports(Top.tag, Top.omitEmpty, Top.v)
              THEN Ret(UnsupportedTypeError(Top.v.typ))
              ELSE Ret(Nil)
  /\ steps' = steps + 1
  /\ UNCHANGED <<input, mode, pc, buffer, result, log>>

\* Marshal returns, lines 23-26.
MarshalReturn ==
  /\ pc = "walk" /\ stack = <<>> /\ ret.set
  /\ result' = MarshalReturns(ret.err, buffer)
  /\ pc' = "done"
  /\ steps' = steps + 1
  /\ UNCHANGED <<input, mode, stack, buffer, visited, ret, log, trace>>

Next ==
  \/ Marshal
  \/ VisitSkip
  \/ VisitInt
  \/ VisitUint
  \/ VisitFloat
  \/ VisitString
  \/ VisitPtr
  \/ VisitStruct
  \/ LoopField
  \/ LoopFieldReturned
  \/ LoopEnd
  \/ VisitDefault
  \/ MarshalReturn

Spec == Init /\ [][Next]_vars

\* ------------------------------------------------- what the claims speak of
(***************************************************************************)
(* The definitions below restate, independently of the walk, what the      *)
(* specification says about a place in the record: a place is a path, a    *)
(* sequence of field positions (1, 2, ...) and dereferences (0).           *)
(***************************************************************************)
Last(p) == p[Len(p)]

Front(p) == SubSeq(p, 1, Len(p) - 1)

RECURSIVE PathValue(_)
PathValue(p) ==
  IF p = <<>> THEN ValueOf(mode)
  ELSE IF Last(p) = 0 THEN Elem(PathValue(Front(p)))
  ELSE Field(PathValue(Front(p)), Last(p) - 1)

\* The declaration of the field a path ends in.
DeclAt(p) == StructField(PathValue(Front(p)), Last(p) - 1)

IsFieldPath(p) == p # <<>> /\ Last(p) > 0

IsElemPath(p) == p # <<>> /\ Last(p) = 0

Commas(tag) == {i \in 1..Len(tag) : tag[i] = ","}

\* The declared name: the tag up to its first comma.
DeclaredName(tag) ==
  IF Commas(tag) = {} THEN tag
  ELSE SubSeq(tag, 1, (CHOOSE i \in Commas(tag) : \A j \in Commas(tag) : i <= j) - 1)

\* The tag has the option as one of its comma-separated segments after the first.
HasOption(tag, opt) ==
  \E i \in Commas(tag) :
    /\ i + Len(opt) <= Len(tag)
    /\ SubSeq(tag, i + 1, i + Len(opt)) = opt
    /\ (i + Len(opt) = Len(tag) \/ tag[i + Len(opt) + 1] = ",")

\* The effective name of a place, by the three rules of the specification,
\* followed from the value handed to Marshal (v and name: the value and the
\* name reached after the first i - 1 steps of p).
RECURSIVE NameAlong(_, _, _, _)
NameAlong(p, i, v, name) ==
  IF i > Len(p) THEN name
  ELSE IF p[i] = 0 THEN NameAlong(p, i + 1, Elem(v), name)
  ELSE LET d == StructField(v, p[i] - 1)
           declared == DeclaredName(d.tag)
       IN NameAlong(p, i + 1, Field(v, p[i] - 1),
                    IF declared # <<>> THEN declared
                    ELSE IF name # <<>> THEN name \o <<"_">> \o d.Name
                    ELSE <<>>)

EffName(p) == NameAlong(p, 1, ValueOf(mode), <<>>)

ScalarKinds == {"Int", "Uint", "Float", "String"}

Disallowed == {"Slice", "Array", "Map", "Chan", "Func"}

\* The text Go prints for the scalars of the heap.
Shown(n) ==
  LET o == Obj(n)
  IN CASE o.kind = "String" -> o.str
       [] o.kind = "Float" /\ o.num = 15 -> <<"1", ".", "5">>
       [] o.kind \in {"Int", "Uint", "Float"} /\ o.num = 0 -> <<"0">>
       [] o.kind \in {"Int", "Uint"} /\ o.num = 1 -> <<"1">>
       [] o.kind \in {"Int", "Uint"} /\ o.num = 5 -> <<"5">>
       [] o.kind \in {"Int", "Uint"} /\ o.num = 7 -> <<"7">>
       [] o.kind \in {"Int", "Uint"} /\ o.num = 42 -> <<"4", "2">>
       [] o.kind \in {"Int", "Uint"} /\ o.num = 4711 -> <<"4", "7", "1", "1">>
       [] o.kind = "Int" /\ o.num = 0 - 3 -> <<"-", "3">>

ExpectedLine(name, n) ==
  <<"e","x","p","o","r","t"," ">> \o name \o <<"=", "'">> \o Shown(n) \o <<"'", "\n">>

RECURSIVE ExpectedBytes(_)
ExpectedBytes(l) ==
  IF l = <<>> THEN <<>>
  ELSE ExpectedLine(l[1].name, l[1].node) \o ExpectedBytes(Tail(l))

\* p comes before q in depth-first pre-order.
Before(p, q) ==
  \E k \in 1..Len(q) :
    /\ k <= Len(p) + 1
    /\ \A j \in 1..(k - 1) : p[j] = q[j]
    /\ (k = Len(p) + 1 \/ p[k] < q[k])

Logged(p) == \E k \in 1..Len(log) : log[k].path = p

Entries == 1..Len(trace)

\* The k-th call raised the error of this walk: a raised error ends the walk, so
\* it is the last call, and the error is on its way out or has been returned.
Raised(k) == k = Len(trace) /\ (ret.err # Nil \/ result.err # Nil)

IsZero(v) ==
  IF v.kind = "String" THEN Obj(NodeOf(v)).str = <<>> ELSE Obj(NodeOf(v)).num = 0

Done == pc = "done"

\* ------------------------------------------------------------------ claims

\* C1: when Marshal succeeds, the returned bytes are exactly the lines
\* export NAME='VALUE' of the emitted scalars, one after the other and nothing
\* else, in depth-first pre-order of the places they were emitted at: the
\* lines of a nested record lie between those of its earlier and later siblings.
C1_OutputInDeclarationOrder ==
  (Done /\ result.err = Nil) =>
    /\ result.data.bytes = ExpectedBytes(log)
    /\ result.data.isnil <=> log = <<>>
    /\ \A k \in 1..(Len(log) - 1) : Before(log[k].path, log[k + 1].path)
    /\ \A k \in 1..Len(log) :
         /\ NodeOf(PathValue(log[k].path)) = log[k].node
         /\ Obj(log[k].node).kind \in ScalarKinds

\* A record whose nested record's lines lie between two sibling scalars' lines.
C1_Witness ==
  /\ Done /\ result.err = Nil
  /\ \E k \in 2..(Len(log) - 1) :
       /\ Len(log[k].path) >= 2
       /\ Len(log[k - 1].path) = 1
       /\ Len(log[k + 1].path) = 1

Containers == {"Slice", "Array", "Map", "Chan"}

\* Empty in the widest sense: no elements, or nil.
EmptyOrNil(v) ==
  LET o == Obj(NodeOf(v))
  IN IF v.kind \in {"Chan", "Func"} THEN o.isnil ELSE o.len = 0

C2_Reported(k) ==
  /\ IsValid(trace[k].v)
  /\ trace[k].v.kind \in Containers
  /\ EffName(trace[k].path) # <<>>
  /\ ~(trace[k].omitEmpty /\ EmptyOrNil(trace[k].v))

C2_Outcome(k) ==
  /\ result.data = NilBytes
  /\ ErrorsIs(result.err, UnsupportedTypeError(trace[k].v.typ))
  /\ k = Len(trace)

\* C2 as stated: whenever the walk reaches a named, unsuppressed field of list,
\* array, map or channel kind, Marshal returns nil bytes and an error that
\* errors.Is matches with UnsupportedTypeError of that field's type, and nothing
\* is visited after it.
C2_AsStated ==
  Done => \A k \in Entries : C2_Reported(k) => C2_Outcome(k)

\* It holds of every such field the walk has not visited before: the claim
\* fails only where line 34 skips a value reached a second time.
C2_HoldsUnlessVisited ==
  Done => \A k \in Entries : (C2_Reported(k) /\ trace[k].fresh) => C2_Outcome(k)

\* C3: every call of the walk, and every line written, carries the effective
\* name of its place: the declared name if there is one, else the enclosing
\* name, an underscore and the field identifier if there is an enclosing name,
\* else the empty name; and no line is written under the empty name.
C3_EffectiveName ==
  /\ \A k \in 1..Len(stack) : stack[k].tag = EffName(stack[k].path)
  /\ \A k \in Entries : trace[k].tag = EffName(trace[k].path)
  /\ \A k \in 1..Len(log) : log[k].name = EffName(log[k].path) /\ log[k].name # <<>>
  /\ buffer = ExpectedBytes([k \in 1..Len(log) |->
                               [name |-> EffName(log[k].path), node |-> log[k].node]])

\* A derived name, a declared name inside a named record, a declared name
\* inside an unnamed record next to an unnamed field that is not written.
C3_Witness ==
  /\ Done
  /\ \E k \in 1..Len(log) : log[k].name = <<"S","1","_","C">>
  /\ \E k \in 1..Len(log) : log[k].node = "nS1_A" /\ log[k].name = <<"M","Y","V","A","R">>
  /\ \E k \in 1..Len(log) : log[k].node = "nS4_A"
  /\ \E k \in Entries :
       /\ trace[k].node = "nS4_C"
       /\ ~Logged(trace[k].path)

\* C4: a place with the empty effective name never gets a line and never
\* raises an error, whatever its kind and value.
C4_UnnamedIgnored ==
  \A k \in Entries :
    EffName(trace[k].path) = <<>> => ~Raised(k) /\ ~Logged(trace[k].path)

\* Unnamed fields of list, channel and function kind were walked over.
C4_Witness ==
  /\ Done /\ result.err = Nil
  /\ \A kind \in {"Slice", "Chan", "Func"} :
       \E k \in Entries : trace[k].v.kind = kind /\ trace[k].fresh

C5_ScalarField(k) ==
  /\ IsValid(trace[k].v)
  /\ IsFieldPath(trace[k].path)
  /\ trace[k].v.kind \in ScalarKinds
  /\ EffName(trace[k].path) # <<>>

C5_Rule(k) ==
  Logged(trace[k].path) <=>
    ~(HasOption(DeclAt(trace[k].path).tag, Str_omitempty) /\ IsZero(trace[k].v))

\* C5 as stated: a named scalar field gets a line if and only if it is not
\* both tagged omitempty (anywhere after the first comma) and zero.
C5_AsStated ==
  \A k \in Entries : C5_ScalarField(k) => C5_Rule(k)

\* It holds of every scalar field whose value the walk has not visited before;
\* one it has visited before gets no line (line 34).
C5_HoldsUnlessVisited ==
  \A k \in Entries :
    C5_ScalarField(k) =>
      IF trace[k].fresh THEN C5_Rule(k) ELSE ~Logged(trace[k].path)

\* A reference field (k) with a declared name and no omitempty holding a
\* non-null reference to a scalar, and the call (j) on what it refers to.
C6_Reference(k, j) ==
  /\ IsValid(trace[k].v)
  /\ trace[k].v.kind \in RefKinds
  /\ IsFieldPath(trace[k].path)
  /\ DeclaredName(DeclAt(trace[k].path).tag) # <<>>
  /\ ~HasOption(DeclAt(trace[k].path).tag, Str_omitempty)
  /\ trace[j].path = Append(trace[k].path, 0)
  /\ trace[j].v.kind \in ScalarKinds

\* The line of a scalar field with the reference's tag and the target's value.
C6_LineOf(k, j) ==
  \E l \in 1..Len(log) :
    /\ log[l].path = trace[j].path
    /\ log[l].name = DeclaredName(DeclAt(trace[k].path).tag)
    /\ log[l].node = trace[j].node

C6_NullSilent ==
  \A l \in 1..Len(log) :
    IsElemPath(log[l].path) => ~IsNil(PathValue(Front(log[l].path)))

\* C6 as stated: every such reference field gets the line of the scalar, also
\* when references share a target or point at a field of the record.
C6_AsStated ==
  /\ \A k, j \in Entries : C6_Reference(k, j) => C6_LineOf(k, j)
  /\ C6_NullSilent

\* It gets that line if the walk has not visited the target before, and no
\* line if it has (line 34); a null reference gets none.
C6_HoldsUnlessVisited ==
  /\ \A k, j \in Entries :
       C6_Reference(k, j) =>
         IF trace[j].fresh THEN C6_LineOf(k, j) ELSE ~Logged(trace[j].path)
  /\ C6_NullSilent

C7_DispatchedOnce ==
  \A j, k \in Entries :
    (j # k /\ trace[j].fresh /\ trace[k].fresh) => trace[j].v # trace[k].v

C7_RevisitSilent ==
  \A k \in Entries : ~trace[k].fresh => ~Raised(k) /\ ~Logged(trace[k].path)

\* The calls a walk can make: one for the value handed to Marshal, one per
\* field of every record dispatched, one per non-null reference dispatched.
RECURSIVE C7_CallsOf(_)
C7_CallsOf(t) ==
  IF t = <<>> THEN 0
  ELSE C7_CallsOf(Tail(t)) +
       (IF ~t[1].fresh THEN 0
        ELSE IF t[1].v.kind = "Struct" THEN NumField(t[1].v)
        ELSE IF t[1].v.kind \in RefKinds /\ ~IsNil(t[1].v) THEN 1
        ELSE 0)

\* Some step can be taken: the guards of the actions, put together.
C7_CanStep ==
  \/ pc = "start"
  \/ pc = "walk" /\ stack = <<>> /\ ret.set
  \/ /\ Calling
     /\ \/ ~IsValid(Top.v) \/ Seen(Top.v)
        \/ Top.v.kind \in ScalarKinds \cup RefKinds \cup Disallowed \cup {"Struct", "Bool"}
  \/ Looping /\ ret.set
  \/ /\ Looping /\ ~ret.set
     /\ \/ Top.i = NumField(Top.v)
        \/ Top.i < NumField(Top.v) /\ Len(stack) < MaxDepth

\* C7: Marshal returns on every input, cyclic ones included: no value is
\* dispatched twice, so the calls are bounded by the values there are, the
\* steps by the calls, and the walk never stops before Marshal has returned;
\* a value reached again gets no line and raises no error.
C7_Terminates ==
  /\ C7_DispatchedOnce
  /\ C7_RevisitSilent
  /\ Len(trace) <= 1 + C7_CallsOf(trace)
  /\ steps <= 4 * Len(trace) + 2
  /\ Done \/ C7_CanStep

\* The walk came back to a record it was inside of, and Marshal returned.
C7_Witness ==
  /\ Done
  /\ \E j, k \in Entries :
       /\ j < k /\ trace[j].fresh /\ ~trace[k].fresh
       /\ trace[j].v = trace[k].v /\ trace[k].v.kind = "Struct"
       /\ Len(trace[j].path) < Len(trace[k].path)
       /\ SubSeq(trace[k].path, 1, Len(trace[j].path)) = trace[j].path

\* A named reference field (k) tagged omitempty and the call (j) on the zero
\* scalar it refers to.
C8_ZeroBehindReference(k, j) ==
  /\ IsValid(trace[k].v)
  /\ trace[k].v.kind \in RefKinds
  /\ IsFieldPath(trace[k].path)
  /\ DeclaredName(DeclAt(trace[k].path).tag) # <<>>
  /\ HasOption(DeclAt(trace[k].path).tag, Str_omitempty)
  /\ trace[j].path = Append(trace[k].path, 0)
  /\ trace[j].v.kind \in ScalarKinds
  /\ IsZero(trace[j].v)

\* C8 as stated: the dereference carries the omitempty flag of the reference,
\* so NAME,omitempty on a reference to a zero scalar writes no line.
C8_AsStated ==
  \A k, j \in Entries :
    C8_ZeroBehindReference(k, j) => trace[j].omitEmpty /\ ~Logged(trace[j].path)

\* C8 as amended: the dereference carries the name of the reference and the
\* flag false, so NAME,omitempty on a reference to a zero scalar the walk has
\* not visited before writes the line export NAME='0'.
C8_DereferenceDropsOmitEmpty ==
  /\ \A k, j \in Entries :
       (IsValid(trace[k].v) /\ trace[k].v.kind \in RefKinds
          /\ trace[j].path = Append(trace[k].path, 0)) =>
         trace[j].tag = trace[k].tag /\ ~trace[j].omitEmpty
  /\ \A k, j \in Entries :
       (C8_ZeroBehindReference(k, j) /\ trace[j].fresh) =>
         \E l \in 1..Len(log) :
           /\ log[l].path = trace[j].path
           /\ log[l].name = DeclaredName(DeclAt(trace[k].path).tag)

\* PZ *int `env:"PZ,omitempty"` pointing at 0 was written.
C8_Witness ==
  /\ Done
  /\ \E k, j \in Entries : C8_ZeroBehindReference(k, j) /\ Logged(trace[j].path)
  /\ \E l \in 1..Len(log) : log[l].name = <<"P","Z">> /\ log[l].node = "cZ"

\* C9: a record whose fields are all of primitive kinds (booleans included),
\* records of those or pointers to those is marshalled without an error.
C9_PrimitivesSupported ==
  (Done /\ \A k \in Entries :
             trace[k].v.kind \in ScalarKinds \cup {"Bool", "Struct", "Ptr"}) =>
    result.err = Nil

C10_Field(k) ==
  /\ IsValid(trace[k].v)
  /\ trace[k].v.kind \in Disallowed

\* C10 as stated: an error is raised by a field of a disallowed kind only if
\* it is named and not both tagged omitempty and empty, where empty is a
\* zero-length list, array or map or a nil list, map, channel or function.
C10_AsStated ==
  \A k \in Entries :
    (C10_Field(k) /\ Raised(k)) =>
      /\ EffName(trace[k].path) # <<>>
      /\ ~(trace[k].omitEmpty /\ EmptyOrNil(trace[k].v))

C10_Empty(v) == v.kind \in {"Slice", "Array", "Map"} /\ Obj(NodeOf(v)).len = 0

\* C10 as amended: empty is a zero-length list, array or map only; a channel or
\* a function is never empty, so a named one raises the error although it is
\* nil and tagged omitempty.  A value visited before raises nothing.
C10_OmitEmptyOnDisallowed ==
  \A k \in Entries :
    C10_Field(k) =>
      (Raised(k) <=>
         /\ trace[k].fresh
         /\ EffName(trace[k].path) # <<>>
         /\ ~(trace[k].omitEmpty /\ C10_Empty(trace[k].v)))

\* A nil list, an empty array and a nil map, all omitempty, were walked over
\* and a later field was still visited.
C10_Witness ==
  /\ Done /\ result.err = Nil
  /\ \E k \in Entries :
       /\ C10_Field(k) /\ trace[k].omitEmpty /\ C10_Empty(trace[k].v)
       /\ EffName(trace[k].path) # <<>>
       /\ k < Len(trace)
  /\ log # <<>>

====
